---- MODULE Spec2Model ----
(***************************************************************************)
(* Model of the QR generators of Diploma-Lookbook:                         *)
(*   src/qr-genv2.py          redirector variant (short codes + mappings)  *)
(*   src/qr-generator-logo.py two-format generator with a centered logo    *)
(*   src/qr-generator.py      plain two-format generator                   *)
(*                                                                         *)
(* Python strings are sequences of one-character strings, so that          *)
(* slugify, sanitize_filename, unique_path and add_utm are computed        *)
(* character by character as the code computes them.                       *)
(***************************************************************************)
EXTENDS Integers, Sequences, FiniteSets, TLC

VARIABLES
    \* ---- the redirector variant, qr-genv2.py main() ----
    csv,          \* rows of the CSV file read by this run
    prev_csv,     \* rows of the CSV file the previous run read (<<>> before any run)
    run,          \* 1 for the first run of the script, 2 for the second
    pc,           \* position of main(): "loop", "write", "done", "aborted", "failed", "killed"
    idx,          \* number of rows the reader has yielded
    total, created, skipped,
    used_codes,   \* set[str]
    mappings,     \* dict[str, str] in insertion order: sequence of <<code, tracked_url>>
    out_dir,      \* qr-codes/: path -> payload encoded in the file
    qr_fails,     \* QR generation failures so far (bounded by MaxFail)
    map_file,     \* redirector/mappings.json on disk
    doc_at_start, \* mappings.json as it was when the current run started
    dumped,       \* number of entries json.dump has written so far
    \* ---- the logo variant, qr-generator-logo.py main() ----
    lcsv, lpc, lidx, ltotal, lcreated, lskipped,
    lfails,       \* failures of the try block so far (bounded by MaxFail)
    svg_dir,      \* qr-codes-svg-logo/: path -> content of the file
    jpg_dir,      \* qr-codes-jpg-logo/: path -> content of the file
    logo_exists,  \* whether LOGO_PATH exists
    logo_path,    \* the configured LOGO_PATH, or NO_LOGO when none is configured
    \* ---- add_utm applied once and twice ----
    utm_url, utm_params, utm_once, utm_twice, utm_pc,
    \* ---- logo geometry ----
    geo_in, geo_svg, geo_pil,
    \* ---- slugify and the code allocator applied to one text ----
    slug_text,    \* the text given to slugify
    slug_out,     \* what slugify returned
    slug_used,    \* the used-code set
    slug_codes,   \* the codes allocated for rows with this text, in order
    slug_pc

redirVars == <<csv, prev_csv, run, pc, idx, total, created, skipped, used_codes,
               mappings, out_dir, qr_fails, map_file, doc_at_start, dumped>>
logoVars == <<lcsv, lpc, lidx, ltotal, lcreated, lskipped, lfails, svg_dir, jpg_dir,
              logo_exists, logo_path>>
utmVars == <<utm_url, utm_params, utm_once, utm_twice, utm_pc>>
geoVars == <<geo_in, geo_svg, geo_pil>>
slugVars == <<slug_text, slug_out, slug_used, slug_codes, slug_pc>>
vars == <<redirVars, logoVars, utmVars, geoVars, slugVars>>

-----------------------------------------------------------------------------
(* Characters and Python's str methods.                                    *)
(* The helpers that walk a string are functions, not operators: TLC        *)
(* evaluates the argument of a function application once, to a value.      *)

STR == Seq(STRING)
CHARSET == SUBSET STRING

LOWER == <<"a","b","c","d","e","f","g","h","i","j","k","l","m",
           "n","o","p","q","r","s","t","u","v","w","x","y","z">>
UPPER == <<"A","B","C","D","E","F","G","H","I","J","K","L","M",
           "N","O","P","Q","R","S","T","U","V","W","X","Y","Z">>
DIGITS == <<"0","1","2","3","4","5","6","7","8","9">>

\* The printable ASCII characters, chr(32) .. chr(126), in code order
\* (chr(96), the grave accent, cannot be written in a TLA+ string and is named).
ASCII == <<" ","!","\"","#","$","%","&","'","(",")","*","+",",","-",".","/",
           "0","1","2","3","4","5","6","7","8","9",":",";","<","=",">","?",
           "@","A","B","C","D","E","F","G","H","I","J","K","L","M","N","O",
           "P","Q","R","S","T","U","V","W","X","Y","Z","[","\\","]","^","_",
           "GRAVE","a","b","c","d","e","f","g","h","i","j","k","l","m","n","o",
           "p","q","r","s","t","u","v","w","x","y","z","{","|","}","~">>

Range(s) == {s[i] : i \in 1..Len(s)}
LOWER_SET == Range(LOWER)
UPPER_SET == Range(UPPER)
DIGIT_SET == Range(DIGITS)
ASCII_SET == Range(ASCII)
WHITESPACE == {" ", "\t", "\n", "\r", "\f"}

IndexIn(c, s) == CHOOSE i \in 1..Len(s) : s[i] = c

LowerChar[c \in STRING] == IF c \in UPPER_SET THEN LOWER[IndexIn(c, UPPER)] ELSE c
UpperChar[c \in STRING] == IF c \in LOWER_SET THEN UPPER[IndexIn(c, LOWER)] ELSE c

\* s.lower(), s.upper()
StrLower[s \in STR] == [i \in 1..Len(s) |-> LowerChar[s[i]]]
StrUpper[s \in STR] == [i \in 1..Len(s) |-> UpperChar[s[i]]]

\* s.lstrip(chars), s.rstrip(chars), s.strip(chars)
LStrip[s \in STR, chars \in CHARSET] ==
    IF s # <<>> /\ Head(s) \in chars THEN LStrip[Tail(s), chars] ELSE s

RStrip[s \in STR, chars \in CHARSET] ==
    IF s # <<>> /\ s[Len(s)] \in chars THEN RStrip[SubSeq(s, 1, Len(s) - 1), chars] ELSE s

Strip[s \in STR, chars \in CHARSET] == RStrip[LStrip[s, chars], chars]

\* the characters of s that are not in chars
RemoveChars[s \in STR, chars \in CHARSET] == SelectSeq(s, LAMBDA c : c \notin chars)

\* str(n) for n >= 0
IntToStr[n \in Nat] ==
    IF n < 10 THEN <<DIGITS[n + 1]>>
    ELSE IntToStr[n \div 10] \o <<DIGITS[(n % 10) + 1]>>

\* the first index (1-based) of a character of chars in s, 0 when there is none
FindAny[s \in STR, chars \in CHARSET] ==
    IF \E i \in 1..Len(s) : s[i] \in chars
    THEN CHOOSE i \in 1..Len(s) : s[i] \in chars /\ \A j \in 1..(i - 1) : s[j] \notin chars
    ELSE 0

\* s[:2] == p and the like
StartsWith[s \in STR, p \in STR] == Len(s) >= Len(p) /\ SubSeq(s, 1, Len(p)) = p

\* s[i-1:] in Python's 0-based slices
From[s \in STR, i \in Nat] == SubSeq(s, i, Len(s))

\* s.split(c, 1): <<before, after>>, after being <<>> when c does not occur
SplitOnce[s \in STR, c \in STRING] ==
    IF FindAny[s, {c}] = 0 THEN <<s, <<>>>>
    ELSE <<SubSeq(s, 1, FindAny[s, {c}] - 1), From[s, FindAny[s, {c}] + 1]>>

\* s.split(c): the pieces between the occurrences of c (at least one piece)
Split[s \in STR, c \in STRING] ==
    IF FindAny[s, {c}] = 0 THEN <<s>>
    ELSE <<SubSeq(s, 1, FindAny[s, {c}] - 1)>> \o Split[From[s, FindAny[s, {c}] + 1], c]

\* sep.join(parts)
Join[parts \in Seq(STR), sep \in STR] ==
    IF parts = <<>> THEN <<>>
    ELSE IF Len(parts) = 1 THEN parts[1]
    ELSE parts[1] \o sep \o Join[Tail(parts), sep]

-----------------------------------------------------------------------------
(* slugify *)

SLUG_CHARS == LOWER_SET \cup DIGIT_SET

\* t without its leading characters outside [a-z0-9]
DropNonSlug[t \in STR] ==
    IF t # <<>> /\ Head(t) \notin SLUG_CHARS THEN DropNonSlug[Tail(t)] ELSE t

\* re.sub(r"[^a-z0-9]+", "-", t)
SubNonSlugRuns[t \in STR] ==
    IF t = <<>> THEN <<>>
    ELSE IF Head(t) \in SLUG_CHARS THEN <<Head(t)>> \o SubNonSlugRuns[Tail(t)]
    ELSE <<"-">> \o SubNonSlugRuns[DropNonSlug[Tail(t)]]

\* re.sub(r"-{2,}", "-", t)
CollapseHyphens[t \in STR] ==
    IF t = <<>> THEN <<>>
    ELSE IF Head(t) = "-" THEN <<"-">> \o CollapseHyphens[LStrip[Tail(t), {"-"}]]
    ELSE <<Head(t)>> \o CollapseHyphens[Tail(t)]

ITEM == <<"i","t","e","m">>

\* t or "item"
OrItem[t \in STR] == IF t = <<>> THEN ITEM ELSE t

\* slugify without the .strip("-") of line 69
slugify_no_strip(text) ==
    OrItem[CollapseHyphens[SubNonSlugRuns[Strip[StrLower[text], WHITESPACE]]]]

\* slugify, lines 66-70
slugify(text) ==
    OrItem[Strip[CollapseHyphens[SubNonSlugRuns[Strip[StrLower[text], WHITESPACE]]], {"-"}]]

-----------------------------------------------------------------------------
(* sanitize_filename and unique_path *)

INVALID_CHARS == {"<", ">", ":", "\"", "/", "\\", "|", "?", "*", "\t", "\n", "\r", "\f"}

RESERVED_NAMES ==
    {<<"C","O","N">>, <<"P","R","N">>, <<"A","U","X">>, <<"N","U","L">>}
    \cup {<<"C","O","M">> \o <<DIGITS[i + 1]>> : i \in 1..9}
    \cup {<<"L","P","T">> \o <<DIGITS[i + 1]>> : i \in 1..9}

UNTITLED == <<"u","n","t","i","t","l","e","d">>
max_len == 150

\* re.sub(r"\s+", " ", name)
CollapseSpace[t \in STR] ==
    IF t = <<>> THEN <<>>
    ELSE IF Head(t) \in WHITESPACE THEN <<" ">> \o CollapseSpace[LStrip[Tail(t), WHITESPACE]]
    ELSE <<Head(t)>> \o CollapseSpace[Tail(t)]

\* if name.upper() in RESERVED_NAMES: name = f"{name}_file"
AvoidReserved[name \in STR] ==
    IF StrUpper[name] \in RESERVED_NAMES THEN name \o <<"_","f","i","l","e">> ELSE name

\* if not name: name = "untitled"; return name[:max_len]
OrUntitledCut[name \in STR] ==
    IF name = <<>> THEN UNTITLED
    ELSE SubSeq(name, 1, IF Len(name) < max_len THEN Len(name) ELSE max_len)

sanitize_filename(name) ==
    IF name = <<>> THEN UNTITLED
    ELSE OrUntitledCut[Strip[CollapseSpace[AvoidReserved[
             RemoveChars[RStrip[Strip[name, WHITESPACE], {".", " "}], INVALID_CHARS]]],
             WHITESPACE]]

\* f"{base} ({n}){ext}"
NumberedPath(base, n, ext) == base \o <<" ", "(">> \o IntToStr[n] \o <<")">> \o ext

\* the while loop of unique_path, from n on
UniqueFrom[existing \in SUBSET STR, base \in STR, ext \in STR, n \in Nat] ==
    IF NumberedPath(base, n, ext) \notin existing
    THEN NumberedPath(base, n, ext)
    ELSE UniqueFrom[existing, base, ext, n + 1]

\* the first candidate, whether or not a file of that name exists
unique_path_unchecked(existing, base, ext) == base \o ext

\* `existing` is the set of the paths of the directory for which exists() is true
unique_path(existing, base, ext) ==
    IF (base \o ext) \notin existing THEN base \o ext
    ELSE UniqueFrom[existing, base, ext, 2]

SVG_EXT == <<".","s","v","g">>
JPG_EXT == <<".","j","p","g">>

-----------------------------------------------------------------------------
(* add_utm, with the urllib.parse functions it calls *)

HEXDIGITS == <<"0","1","2","3","4","5","6","7","8","9","A","B","C","D","E","F">>
HEX_SET == Range(HEXDIGITS)
IsHexChar(c) == UpperChar[c] \in HEX_SET
HexVal(c) == IndexIn(UpperChar[c], HEXDIGITS) - 1

\* A decoded character outside printable ASCII (U+FFFD for an undecodable byte).
OTHER_CHAR == "U+FFFD"

ChrOf(code) == IF code >= 32 /\ code <= 126 THEN ASCII[code - 31] ELSE OTHER_CHAR

\* urllib.parse.unquote: %XX with two hex digits is decoded, any other % is kept
unquote[s \in STR] ==
    IF s = <<>> THEN <<>>
    ELSE IF Head(s) = "%" /\ Len(s) >= 3 /\ IsHexChar(s[2]) /\ IsHexChar(s[3])
    THEN <<ChrOf(16 * HexVal(s[2]) + HexVal(s[3]))>> \o unquote[From[s, 4]]
    ELSE <<Head(s)>> \o unquote[Tail(s)]

ALWAYS_SAFE == LOWER_SET \cup UPPER_SET \cup DIGIT_SET \cup {"_", ".", "-", "~"}

QuoteChar[c \in STRING] ==
    IF c \in ALWAYS_SAFE THEN <<c>>
    ELSE IF c = " " THEN <<"+">>
    ELSE IF c \notin ASCII_SET THEN <<"%","E","F","%","B","F","%","B","D">>
    ELSE <<"%", HEXDIGITS[((IndexIn(c, ASCII) + 31) \div 16) + 1],
                HEXDIGITS[((IndexIn(c, ASCII) + 31) % 16) + 1]>>

\* urllib.parse.quote_plus(s) with the default safe=''
quote_plus[s \in STR] ==
    IF s = <<>> THEN <<>> ELSE QuoteChar[Head(s)] \o quote_plus[Tail(s)]

\* s.replace('+', ' ')
PlusToSpace[s \in STR] == [i \in 1..Len(s) |-> IF s[i] = "+" THEN " " ELSE s[i]]

\* the decoding parse_qsl applies to a name and to a value
DecodeField(s) == unquote[PlusToSpace[s]]

\* one name=value field of a query string, as parse_qsl reads it
ParseField[nv \in STR] ==
    <<DecodeField(SplitOnce[nv, "="][1]), DecodeField(SplitOnce[nv, "="][2])>>

ParseFields[fields \in Seq(STR)] ==
    IF fields = <<>> THEN <<>>
    ELSE IF Head(fields) = <<>> THEN ParseFields[Tail(fields)]
    ELSE <<ParseField[Head(fields)]>> \o ParseFields[Tail(fields)]

\* urllib.parse.parse_qsl(qs, keep_blank_values=True)
parse_qsl(qs) == IF qs = <<>> THEN <<>> ELSE ParseFields[Split[qs, "&"]]

PAIRS == Seq(Seq(STR))

EncodePairs[pairs \in PAIRS] ==
    [i \in 1..Len(pairs) |-> quote_plus[pairs[i][1]] \o <<"=">> \o quote_plus[pairs[i][2]]]

\* urllib.parse.urlencode(pairs) for a list of (str, str)
urlencode(pairs) == Join[EncodePairs[pairs], <<"&">>]

SCHEME_CHARS == LOWER_SET \cup UPPER_SET \cup DIGIT_SET \cup {"+", "-", "."}
C0_CONTROL_OR_SPACE == {" ", "\t", "\n", "\r", "\f"}
UNSAFE_URL_BYTES_TO_REMOVE == {"\t", "\r", "\n"}

uses_netloc ==
    {<<"f","t","p">>, <<"h","t","t","p">>, <<"h","t","t","p","s">>,
     <<"f","i","l","e">>, <<"s","f","t","p">>, <<"w","s">>, <<"w","s","s">>}

\* <<scheme, rest>>: the scheme of urlsplit, lowered, and what follows its colon
SplitScheme[u \in STR] ==
    IF /\ FindAny[u, {":"}] > 1
       /\ u[1] \in LOWER_SET \cup UPPER_SET
       /\ \A j \in 1..(FindAny[u, {":"}] - 1) : u[j] \in SCHEME_CHARS
    THEN <<StrLower[SubSeq(u, 1, FindAny[u, {":"}] - 1)], From[u, FindAny[u, {":"}] + 1]>>
    ELSE <<<<>>, u>>

\* _splitnetloc(url, 2) for a url that starts with "//"; s is url[2:]
SplitNetlocAt[s \in STR] ==
    IF FindAny[s, {"/", "?", "#"}] = 0 THEN <<s, <<>>>>
    ELSE <<SubSeq(s, 1, FindAny[s, {"/", "?", "#"}] - 1), From[s, FindAny[s, {"/", "?", "#"}]]>>

\* <<netloc, rest>>
SplitNetloc[u \in STR] ==
    IF StartsWith[u, <<"/", "/">>] THEN SplitNetlocAt[From[u, 3]] ELSE <<<<>>, u>>

\* ('[' in netloc and ']' not in netloc) or (']' in netloc and '[' not in netloc)
BadBrackets[netloc \in STR] == ("[" \in Range(netloc)) # ("]" \in Range(netloc))

\* the last steps of urlsplit: rest is the url after scheme and netloc
SplitRest[scheme \in STR, netloc \in STR, rest \in STR] ==
    [error |-> BadBrackets[netloc],
     scheme |-> scheme,
     netloc |-> netloc,
     path |-> SplitOnce[SplitOnce[rest, "#"][1], "?"][1],
     query |-> SplitOnce[SplitOnce[rest, "#"][1], "?"][2],
     fragment |-> SplitOnce[rest, "#"][2]]

SplitAfterScheme[sr \in Seq(STR)] ==
    SplitRest[sr[1], SplitNetloc[sr[2]][1], SplitNetloc[sr[2]][2]]

\* urllib.parse.urlsplit: [error |-> TRUE] stands for the ValueError it raises
urlsplit(url) ==
    SplitAfterScheme[SplitScheme[
        RemoveChars[LStrip[url, C0_CONTROL_OR_SPACE], UNSAFE_URL_BYTES_TO_REMOVE]]]

\* urllib.parse.urlunsplit
urlunsplit(scheme, netloc, path, query, fragment) ==
    (IF scheme # <<>> THEN scheme \o <<":">> ELSE <<>>)
    \o (IF netloc # <<>>
           \/ (scheme # <<>> /\ scheme \in uses_netloc /\ ~StartsWith[path, <<"/", "/">>])
        THEN <<"/", "/">> \o netloc
             \o (IF path # <<>> /\ Head(path) # "/" THEN <<"/">> \o path ELSE path)
        ELSE path)
    \o (IF query # <<>> THEN <<"?">> \o query ELSE <<>>)
    \o (IF fragment # <<>> THEN <<"#">> \o fragment ELSE <<>>)

\* existing keys compared as they are written
ExistingKeysCaseSensitive(pairs) == {pairs[i][1] : i \in 1..Len(pairs)}

\* no key counts as existing
ExistingKeysNone(pairs) == {}

\* {k.lower() for k, _ in pairs}
ExistingKeys(pairs) == {StrLower[pairs[i][1]] : i \in 1..Len(pairs)}

\* the (k, v) of params that the loop of add_utm appends, in the order of params
UtmAppended[existing \in SUBSET STR, params \in PAIRS] ==
    SelectSeq(params, LAMBDA kv : kv[2] # <<>> /\ StrLower[kv[1]] \notin existing)

\* the pairs after the loop of add_utm
UtmPairs[pairs \in PAIRS, params \in PAIRS] ==
    pairs \o UtmAppended[ExistingKeys(pairs), params]

VALUE_ERROR == <<"ValueError">>

\* what urlsplit returns: the five parts, or the error it raised
SPLIT_RESULT ==
    [error : BOOLEAN, scheme : STR, netloc : STR, path : STR, query : STR, fragment : STR]

\* lines 75-81 of add_utm, after urlsplit has returned
AddUtmParts[parts \in SPLIT_RESULT, params \in PAIRS] ==
    IF parts.error THEN VALUE_ERROR
    ELSE urlunsplit(parts.scheme, parts.netloc, parts.path,
                    urlencode(UtmPairs[parse_qsl(parts.query), params]), parts.fragment)

\* add_utm(url, params); params is the dict as its (key, value) items in order.
\* The result is VALUE_ERROR when urlsplit raises.
add_utm(url, params) == AddUtmParts[urlsplit(url), params]

-----------------------------------------------------------------------------
(* The redirector variant: main() of qr-genv2.py *)

BASE_REDIRECT == <<"https://your-domain.example">>

K_SOURCE == <<"u","t","m","_","s","o","u","r","c","e">>
K_MEDIUM == <<"u","t","m","_","m","e","d","i","u","m">>
K_CAMPAIGN == <<"u","t","m","_","c","a","m","p","a","i","g","n">>
K_CONTENT == <<"u","t","m","_","c","o","n","t","e","n","t">>

UTM_SOURCE == <<"q","r">>
UTM_MEDIUM == <<"o","f","f","l","i","n","e">>
UTM_CAMPAIGN == <<"d","i","p","l","o","m","a","_","l","o","o","k","b","o","o","k">>

\* the dict literal passed to add_utm, as its items in order
UtmParams(display_name) ==
    << <<K_SOURCE, UTM_SOURCE>>, <<K_MEDIUM, UTM_MEDIUM>>,
       <<K_CAMPAIGN, UTM_CAMPAIGN>>, <<K_CONTENT, slugify(display_name)>> >>

\* dict operations on a sequence of <<key, value>> in insertion order
DictKeys(d) == {d[i][1] : i \in 1..Len(d)}
DictGet(d, k) == d[CHOOSE i \in 1..Len(d) : d[i][1] = k][2]
DictSet(d, k, v) ==
    IF k \in DictKeys(d)
    THEN [i \in 1..Len(d) |-> IF d[i][1] = k THEN <<k, v>> ELSE d[i]]
    ELSE Append(d, <<k, v>>)

\* f"{base_code}-{i}"
SuffixedCode(base_code, i) == base_code \o <<"-">> \o IntToStr[i]

\* the while loop of the allocator, from i on
NextFreeCode[base_code \in STR, used \in SUBSET STR, i \in Nat] ==
    IF SuffixedCode(base_code, i) \notin used THEN SuffixedCode(base_code, i)
    ELSE NextFreeCode[base_code, used, i + 1]

\* a code that ignores the used set (the uniqueness loop left out)
AllocCodeNoLoop(base_code, used) == IF base_code = <<>> THEN ITEM ELSE base_code

\* an allocator whose suffixes start at 3
AllocCodeFromThree(base_code, used) ==
    LET code == IF base_code = <<>> THEN ITEM ELSE base_code
    IN IF code \notin used THEN code ELSE NextFreeCode[base_code, used, 3]

\* code = base_code or "item"; while code in used_codes: code = f"{base_code}-{i}"; i += 1
AllocCode(base_code, used) ==
    LET code == IF base_code = <<>> THEN ITEM ELSE base_code
    IN IF code \notin used THEN code ELSE NextFreeCode[base_code, used, 2]

\* a payload that names the base code "item" whatever the code
QrUrlOfItem(code) == BASE_REDIRECT \o <<"/","r","/">> \o ITEM

\* f"{BASE_REDIRECT}/r/{code}"
QrUrl(code) == BASE_REDIRECT \o <<"/","r","/">> \o code

\* mappings.json on disk: whether it exists, the entries written to it in order,
\* and whether the document is complete (json.dump returned and the file was closed)
NO_FILE == [exists |-> FALSE, entries |-> <<>>, complete |-> FALSE]

\* open(..., "a"): the old content is kept and written after
OpenAppend(file) == [exists |-> TRUE, entries |-> file.entries, complete |-> FALSE]

\* mappings_path.open("w"): the file is created or truncated to nothing
OpenTruncate(file) == [exists |-> TRUE, entries |-> <<>>, complete |-> FALSE]

\* ---- inputs ----
MaxRows == 3
MaxFail == 1

U_A == <<"h","/","a">>
U_B == <<"h","/","b">>
U_BAD == <<"h","t","t","p",":","/","/","[","h">>
N_JAY == <<"J","a","y">>
N_JAY2 == <<"J","a","y"," ","2">>

Rows ==
    { [url |-> U_A, name |-> N_JAY], [url |-> U_B, name |-> N_JAY],
      [url |-> U_A, name |-> N_JAY2], [url |-> U_A, name |-> <<" ">>],
      [url |-> U_BAD, name |-> N_JAY] }

Batches == UNION {[1..n -> Rows] : n \in 0..MaxRows}

InsertAt(s, i, r) == SubSeq(s, 1, i - 1) \o <<r>> \o SubSeq(s, i, Len(s))
RemoveAt(s, i) == SubSeq(s, 1, i - 1) \o SubSeq(s, i + 1, Len(s))
SwapAt(s, i) == [j \in 1..Len(s) |-> IF j = i THEN s[i + 1] ELSE IF j = i + 1 THEN s[i] ELSE s[j]]

\* the CSV of the next run: unchanged, or one row added, removed or moved
Variations(s) ==
    {s}
    \cup (IF Len(s) < MaxRows
          THEN {InsertAt(s, i, r) : i \in 1..(Len(s) + 1), r \in Rows} ELSE {})
    \cup {RemoveAt(s, i) : i \in 1..Len(s)}
    \cup {SwapAt(s, i) : i \in 1..(Len(s) - 1)}

\* LOGO_PATH = Path(__file__).with_name("logo.png"), or no path configured
LOGO_PATH == <<"logo.png">>
NO_LOGO == <<>>

IdleLogo ==
    /\ lcsv = <<>> /\ lpc = "idle" /\ lidx = 0
    /\ ltotal = 0 /\ lcreated = 0 /\ lskipped = 0 /\ lfails = 0
    /\ svg_dir = <<>> /\ jpg_dir = <<>> /\ logo_exists = FALSE /\ logo_path = NO_LOGO
IdleUtm ==
    /\ utm_url = <<>> /\ utm_params = <<>> /\ utm_once = <<>> /\ utm_twice = <<>>
    /\ utm_pc = "idle"
IdleGeo == geo_in = <<>> /\ geo_svg = <<>> /\ geo_pil = <<>>
IdleSlug ==
    /\ slug_text = <<>> /\ slug_out = <<>> /\ slug_used = {} /\ slug_codes = <<>>
    /\ slug_pc = "idle"
IdleRedir ==
    /\ csv = <<>> /\ prev_csv = <<>> /\ run = 0 /\ pc = "idle" /\ idx = 0
    /\ total = 0 /\ created = 0 /\ skipped = 0
    /\ used_codes = {} /\ mappings = <<>> /\ out_dir = <<>> /\ qr_fails = 0
    /\ map_file = NO_FILE /\ doc_at_start = NO_FILE /\ dumped = 0

\* main() up to the loop, lines 84-119, on a fresh checkout
Init ==
    /\ csv \in Batches
    /\ prev_csv = <<>>
    /\ run = 1
    /\ pc = "loop"
    /\ idx = 0
    /\ total = 0 /\ created = 0 /\ skipped = 0
    /\ used_codes = {}
    /\ mappings = <<>>
    /\ out_dir = <<>>
    /\ qr_fails = 0
    /\ map_file = NO_FILE
    /\ doc_at_start = NO_FILE
    /\ dumped = 0
    /\ IdleLogo /\ IdleUtm /\ IdleGeo /\ IdleSlug

\* what lines 123-136 and 139, 148 compute from a row alone, once per kind of row
RowUrl == [r \in Rows |-> Strip[r.url, WHITESPACE]]
RowName == [r \in Rows |-> Strip[r.name, WHITESPACE]]
RowTracked == [r \in Rows |-> add_utm(RowUrl[r], UtmParams(RowName[r]))]
RowBaseCode == [r \in Rows |-> slugify(RowName[r])]
RowSafeBase == [r \in Rows |-> sanitize_filename(RowName[r])]

CurRow == csv[idx + 1]
CurUrl == RowUrl[CurRow]
CurName == RowName[CurRow]
CurTracked == RowTracked[CurRow]
CurCode == AllocCode(RowBaseCode[CurRow], used_codes)
CurOutPath == unique_path(DOMAIN out_dir, RowSafeBase[CurRow], SVG_EXT)

\* lines 126-128: a row without URL or display name
SkipRow ==
    /\ pc = "loop" /\ idx < Len(csv)
    /\ CurUrl = <<>> \/ CurName = <<>>
    /\ idx' = idx + 1
    /\ total' = total + 1
    /\ skipped' = skipped + 1
    /\ UNCHANGED <<csv, prev_csv, run, pc, created, used_codes, mappings, out_dir,
                   qr_fails, map_file, doc_at_start, dumped>>
    /\ UNCHANGED <<logoVars, utmVars, geoVars, slugVars>>

\* line 131: add_utm raises outside the try block; the exception leaves main()
RowRaises ==
    /\ pc = "loop" /\ idx < Len(csv)
    /\ CurUrl # <<>> /\ CurName # <<>>
    /\ CurTracked = VALUE_ERROR
    /\ idx' = idx + 1
    /\ total' = total + 1
    /\ pc' = "aborted"
    /\ UNCHANGED <<csv, prev_csv, run, created, skipped, used_codes, mappings, out_dir,
                   qr_fails, map_file, doc_at_start, dumped>>
    /\ UNCHANGED <<logoVars, utmVars, geoVars, slugVars>>

\* lines 130-156: the row gets its code and mapping entry and the QR file is saved
RowCreated ==
    /\ pc = "loop" /\ idx < Len(csv)
    /\ CurUrl # <<>> /\ CurName # <<>>
    /\ CurTracked # VALUE_ERROR
    /\ idx' = idx + 1
    /\ total' = total + 1
    /\ used_codes' = used_codes \cup {CurCode}
    /\ mappings' = DictSet(mappings, CurCode, CurTracked)
    /\ out_dir' = [p \in DOMAIN out_dir \cup {CurOutPath} |->
                      IF p = CurOutPath THEN QrUrl(CurCode) ELSE out_dir[p]]
    /\ created' = created + 1
    /\ UNCHANGED <<csv, prev_csv, run, pc, skipped, qr_fails, map_file, doc_at_start, dumped>>
    /\ UNCHANGED <<logoVars, utmVars, geoVars, slugVars>>

\* an except clause that does not count the row
RowQrFailsUncounted ==
    /\ pc = "loop" /\ idx < Len(csv)
    /\ CurUrl # <<>> /\ CurName # <<>>
    /\ CurTracked # VALUE_ERROR
    /\ qr_fails < MaxFail
    /\ qr_fails' = qr_fails + 1
    /\ idx' = idx + 1
    /\ total' = total + 1
    /\ used_codes' = used_codes \cup {CurCode}
    /\ mappings' = DictSet(mappings, CurCode, CurTracked)
    /\ UNCHANGED <<csv, prev_csv, run, pc, created, skipped, out_dir, map_file,
                   doc_at_start, dumped>>
    /\ UNCHANGED <<logoVars, utmVars, geoVars, slugVars>>

\* lines 130-159: as RowCreated, but segno.make or qr.save raises and is caught
RowQrFails ==
    /\ pc = "loop" /\ idx < Len(csv)
    /\ CurUrl # <<>> /\ CurName # <<>>
    /\ CurTracked # VALUE_ERROR
    /\ qr_fails < MaxFail
    /\ qr_fails' = qr_fails + 1
    /\ idx' = idx + 1
    /\ total' = total + 1
    /\ used_codes' = used_codes \cup {CurCode}
    /\ mappings' = DictSet(mappings, CurCode, CurTracked)
    /\ skipped' = skipped + 1
    /\ UNCHANGED <<csv, prev_csv, run, pc, created, out_dir, map_file, doc_at_start, dumped>>
    /\ UNCHANGED <<logoVars, utmVars, geoVars, slugVars>>

\* line 163: the loop is over and mappings.json is opened for writing
OpenMappings ==
    /\ pc = "loop" /\ idx = Len(csv)
    /\ map_file' = OpenTruncate(map_file)
    /\ dumped' = 0
    /\ pc' = "write"
    /\ UNCHANGED <<csv, prev_csv, run, idx, total, created, skipped, used_codes, mappings,
                   out_dir, qr_fails, doc_at_start>>
    /\ UNCHANGED <<logoVars, utmVars, geoVars, slugVars>>

\* line 164: json.dump writes the document chunk by chunk, here entry by entry
DumpEntry ==
    /\ pc = "write" /\ dumped < Len(mappings)
    /\ map_file' = [map_file EXCEPT !.entries = Append(@, mappings[dumped + 1])]
    /\ dumped' = dumped + 1
    /\ UNCHANGED <<csv, prev_csv, run, pc, idx, total, created, skipped, used_codes,
                   mappings, out_dir, qr_fails, doc_at_start>>
    /\ UNCHANGED <<logoVars, utmVars, geoVars, slugVars>>

\* lines 164, 169-171: the closing brace is written, the file closed, the summary printed
CloseMappings ==
    /\ pc = "write" /\ dumped = Len(mappings)
    /\ map_file' = [map_file EXCEPT !.complete = TRUE]
    /\ pc' = "done"
    /\ UNCHANGED <<csv, prev_csv, run, idx, total, created, skipped, used_codes, mappings,
                   out_dir, qr_fails, doc_at_start, dumped>>
    /\ UNCHANGED <<logoVars, utmVars, geoVars, slugVars>>

\* lines 165-167: a write raises (disk full, I/O error); the with block closes the
\* file as it is and main() exits with status 1
WriteFails ==
    /\ pc = "write"
    /\ pc' = "failed"
    /\ UNCHANGED <<csv, prev_csv, run, idx, total, created, skipped, used_codes, mappings,
                   out_dir, qr_fails, map_file, doc_at_start, dumped>>
    /\ UNCHANGED <<logoVars, utmVars, geoVars, slugVars>>

\* the process is interrupted (killed, power loss) while the file is open
Interrupted ==
    /\ pc = "write"
    /\ pc' = "killed"
    /\ UNCHANGED <<csv, prev_csv, run, idx, total, created, skipped, used_codes, mappings,
                   out_dir, qr_fails, map_file, doc_at_start, dumped>>
    /\ UNCHANGED <<logoVars, utmVars, geoVars, slugVars>>

\* the script is run again after a completed run: lines 84-119 of the second run
Rerun ==
    /\ pc = "done" /\ run = 1
    /\ run' = 2
    /\ prev_csv' = csv
    /\ csv' \in Variations(csv)
    /\ pc' = "loop"
    /\ idx' = 0
    /\ total' = 0 /\ created' = 0 /\ skipped' = 0
    /\ used_codes' = {}
    /\ mappings' = <<>>
    /\ doc_at_start' = map_file
    /\ dumped' = 0
    /\ UNCHANGED <<out_dir, qr_fails, map_file>>
    /\ UNCHANGED <<logoVars, utmVars, geoVars, slugVars>>



Next ==
    \/ SkipRow \/ RowRaises \/ RowCreated \/ RowQrFails
    \/ OpenMappings \/ DumpEntry \/ CloseMappings \/ WriteFails \/ Interrupted
    \/ Rerun

Spec == Init /\ [][Next]_vars

-----------------------------------------------------------------------------
(* The logo variant: main() of qr-generator-logo.py *)

L_UTM_SOURCE == <<"q","r">>
L_UTM_MEDIUM == <<"d","i","r","e","c","t">>
L_UTM_CAMPAIGN == <<"d","i","p","l","o","m","a","_","i","n","s","e","r","t">>

\* the dict literal passed to add_utm, as its items in order
LogoUtmParams(utm_content) ==
    << <<K_SOURCE, L_UTM_SOURCE>>, <<K_MEDIUM, L_UTM_MEDIUM>>,
       <<K_CAMPAIGN, L_UTM_CAMPAIGN>>, <<K_CONTENT, utm_content>> >>

\* ---- inputs ----
N_JAY_COLON == <<"J","a","y",":">>
N_JAY_P2 == <<"J","a","y"," ","(","2",")">>

LRows ==
    { [url |-> U_A, file_name |-> N_JAY, display_name |-> <<>>],
      [url |-> U_B, file_name |-> N_JAY_COLON, display_name |-> <<"J">>],
      [url |-> U_A, file_name |-> N_JAY_P2, display_name |-> <<>>],
      [url |-> U_A, file_name |-> <<>>, display_name |-> N_JAY],
      [url |-> U_BAD, file_name |-> N_JAY, display_name |-> <<>>] }

LBatches == UNION {[1..n -> LRows] : n \in 0..MaxRows}

\* a file left by an earlier run
OLD_FILE == [row |-> 0, payload |-> <<>>, logo |-> FALSE]

\* a directory holding old files under the given paths
OldDir(paths) == [p \in paths |-> OLD_FILE]

\* the directory with one more file (or the file at path rewritten)
WriteFile(dir, path, content) ==
    [p \in DOMAIN dir \cup {path} |-> IF p = path THEN content ELSE dir[p]]

\* main() up to the loop, lines 166-197, with what earlier runs left on disk
LogoInit ==
    /\ lcsv \in LBatches
    /\ lpc = "loop"
    /\ lidx = 0
    /\ ltotal = 0 /\ lcreated = 0 /\ lskipped = 0 /\ lfails = 0
    /\ svg_dir \in {OldDir(ps) : ps \in SUBSET {N_JAY \o SVG_EXT, N_JAY_P2 \o SVG_EXT}}
    /\ jpg_dir \in {OldDir(ps) : ps \in SUBSET {N_JAY \o JPG_EXT}}
    /\ logo_path \in {NO_LOGO, LOGO_PATH}
    /\ logo_exists \in (IF logo_path = NO_LOGO THEN {FALSE} ELSE BOOLEAN)
    /\ IdleRedir /\ IdleUtm /\ IdleGeo /\ IdleSlug

\* what lines 201-216 and 218 compute from a row alone, once per kind of row
LRowUrl == [r \in LRows |-> Strip[r.url, WHITESPACE]]
LRowFileName == [r \in LRows |-> Strip[r.file_name, WHITESPACE]]
LRowDisplayName == [r \in LRows |-> Strip[r.display_name, WHITESPACE]]
LRowUtmContent ==
    [r \in LRows |-> slugify(IF LRowDisplayName[r] # <<>> THEN LRowDisplayName[r]
                                                          ELSE LRowFileName[r])]
LRowTracked == [r \in LRows |-> add_utm(LRowUrl[r], LogoUtmParams(LRowUtmContent[r]))]
LRowSafeBase == [r \in LRows |-> sanitize_filename(LRowFileName[r])]

LRow == lcsv[lidx + 1]
LUrl == LRowUrl[LRow]
LFileName == LRowFileName[LRow]
LDisplayName == LRowDisplayName[LRow]
LUtmContent == LRowUtmContent[LRow]
LTracked == LRowTracked[LRow]
LSafeBase == LRowSafeBase[LRow]
LOutSvgPath == unique_path(DOMAIN svg_dir, LSafeBase, SVG_EXT)
LOutJpgPath == unique_path(DOMAIN jpg_dir, LSafeBase, JPG_EXT)

\* the plain symbol qr.save renders, as SVG text or as PNG image: the row it
\* belongs to, the payload it encodes, and no logo on it
LPlain == [row |-> lidx + 1, payload |-> LTracked, logo |-> FALSE]

\* an overlay step that does not look for the logo file
overlay_unguarded(content, path, exists) == [content EXCEPT !.logo = TRUE]

\* embed_logo_in_svg: returns at once when there is no logo path or no file at
\* it; otherwise the overlay group replaces the closing tag of the SVG text
embed_logo_in_svg(svg_text, path, exists) ==
    IF path = NO_LOGO \/ ~exists THEN svg_text ELSE [svg_text EXCEPT !.logo = TRUE]

\* add_logo_on_pil: returns img itself when there is no logo path or no file at
\* it; otherwise the image with the box and the logo composited on it
add_logo_on_pil(img, path, exists) ==
    IF path = NO_LOGO \/ ~exists THEN img ELSE [img EXCEPT !.logo = TRUE]

\* the SVG file after line 231 and the image saved as JPG at line 251
LSvgContent == embed_logo_in_svg(LPlain, logo_path, logo_exists)
LJpgContent == add_logo_on_pil(LPlain, logo_path, logo_exists)

\* lines 205-207: a row without URL or file name
LSkipRow ==
    /\ lpc = "loop" /\ lidx < Len(lcsv)
    /\ LUrl = <<>> \/ LFileName = <<>>
    /\ lidx' = lidx + 1
    /\ ltotal' = ltotal + 1
    /\ lskipped' = lskipped + 1
    /\ UNCHANGED <<lcsv, lpc, lcreated, lfails, svg_dir, jpg_dir, logo_exists, logo_path>>
    /\ UNCHANGED <<redirVars, utmVars, geoVars, slugVars>>

\* line 211: add_utm raises outside the try block; the exception leaves main()
LRowRaises ==
    /\ lpc = "loop" /\ lidx < Len(lcsv)
    /\ LUrl # <<>> /\ LFileName # <<>>
    /\ LTracked = VALUE_ERROR
    /\ lidx' = lidx + 1
    /\ ltotal' = ltotal + 1
    /\ lpc' = "aborted"
    /\ UNCHANGED <<lcsv, lcreated, lskipped, lfails, svg_dir, jpg_dir, logo_exists, logo_path>>
    /\ UNCHANGED <<redirVars, utmVars, geoVars, slugVars>>

\* lines 209-253: the SVG is saved (with the logo embedded), then the JPG
LRowCreated ==
    /\ lpc = "loop" /\ lidx < Len(lcsv)
    /\ LUrl # <<>> /\ LFileName # <<>>
    /\ LTracked # VALUE_ERROR
    /\ lidx' = lidx + 1
    /\ ltotal' = ltotal + 1
    /\ svg_dir' = WriteFile(svg_dir, LOutSvgPath, LSvgContent)
    /\ jpg_dir' = WriteFile(jpg_dir, LOutJpgPath, LJpgContent)
    /\ lcreated' = lcreated + 1
    /\ UNCHANGED <<lcsv, lpc, lskipped, lfails, logo_exists, logo_path>>
    /\ UNCHANGED <<redirVars, utmVars, geoVars, slugVars>>

\* lines 222-227, 254-256: segno.make or the SVG save raises; nothing is written
LRowFailsEarly ==
    /\ lpc = "loop" /\ lidx < Len(lcsv)
    /\ LUrl # <<>> /\ LFileName # <<>>
    /\ LTracked # VALUE_ERROR
    /\ lfails < MaxFail
    /\ lfails' = lfails + 1
    /\ lidx' = lidx + 1
    /\ ltotal' = ltotal + 1
    /\ lskipped' = lskipped + 1
    /\ UNCHANGED <<lcsv, lpc, lcreated, svg_dir, jpg_dir, logo_exists, logo_path>>
    /\ UNCHANGED <<redirVars, utmVars, geoVars, slugVars>>

\* lines 227-251, 254-256: the SVG is on disk (plain when embed_logo_in_svg
\* itself raises, with the overlay otherwise) when embedding, rasterising,
\* compositing or saving the JPG raises
LRowFailsLate ==
    /\ lpc = "loop" /\ lidx < Len(lcsv)
    /\ LUrl # <<>> /\ LFileName # <<>>
    /\ LTracked # VALUE_ERROR
    /\ lfails < MaxFail
    /\ lfails' = lfails + 1
    /\ lidx' = lidx + 1
    /\ ltotal' = ltotal + 1
    /\ \E c \in {LPlain, LSvgContent} : svg_dir' = WriteFile(svg_dir, LOutSvgPath, c)
    /\ lskipped' = lskipped + 1
    /\ UNCHANGED <<lcsv, lpc, lcreated, jpg_dir, logo_exists, logo_path>>
    /\ UNCHANGED <<redirVars, utmVars, geoVars, slugVars>>

\* lines 258-260: the loop is over and the summary is printed
LSummary ==
    /\ lpc = "loop" /\ lidx = Len(lcsv)
    /\ lpc' = "done"
    /\ UNCHANGED <<lcsv, lidx, ltotal, lcreated, lskipped, lfails, svg_dir, jpg_dir,
                   logo_exists, logo_path>>
    /\ UNCHANGED <<redirVars, utmVars, geoVars, slugVars>>

LogoNext ==
    \/ LSkipRow \/ LRowRaises \/ LRowCreated \/ LRowFailsEarly \/ LRowFailsLate
    \/ LSummary

SpecLogo == LogoInit /\ [][LogoNext]_vars

-----------------------------------------------------------------------------
(* add_utm applied to a URL, and again to its own result *)

MaxFields == 2

F_SOURCE_OTHER == K_SOURCE \o <<"=","o","t","h","e","r">>
F_SOURCE_UPPER == StrUpper[K_SOURCE] \o <<"=","o">>
F_MEDIUM_BLANK == K_MEDIUM \o <<"=">>
F_ESCAPED == <<"a","=","%","3","d","+","b"," ","/">>
F_NO_EQUALS == <<"x">>

\* the fields a query string is made of; <<>> gives "&&"
UtmFields == {F_SOURCE_OTHER, F_SOURCE_UPPER, F_MEDIUM_BLANK, F_ESCAPED, F_NO_EQUALS, <<>>}

UtmQueries == UNION {{Join[fs, <<"&">>] : fs \in [1..n -> UtmFields]} : n \in 1..MaxFields}

U_HTTPS == <<"h","t","t","p","s",":","/","/","h","/","p">>

UtmUrls ==
    {U_A, U_HTTPS, U_BAD}
    \cup {b \o <<"?">> \o q \o f : b \in {U_A, U_HTTPS, U_BAD}, q \in UtmQueries,
                                  f \in {<<>>, <<"#","f">>}}

UtmParamLists ==
    { UtmParams(N_JAY),
      LogoUtmParams(<<"j">>),
      << <<K_SOURCE, UTM_SOURCE>>, <<K_MEDIUM, <<>>>>, <<K_CONTENT, <<"a"," ","&">>>> >> }

UtmInit ==
    /\ utm_url \in UtmUrls
    /\ utm_params \in UtmParamLists
    /\ utm_once = <<>>
    /\ utm_twice = <<>>
    /\ utm_pc = "start"
    /\ IdleRedir /\ IdleLogo /\ IdleGeo /\ IdleSlug

\* tracked_url = add_utm(url, params)
ApplyAddUtm ==
    /\ utm_pc = "start"
    /\ utm_once' = add_utm(utm_url, utm_params)
    /\ utm_pc' = "once"
    /\ UNCHANGED <<utm_url, utm_params, utm_twice>>
    /\ UNCHANGED <<redirVars, logoVars, geoVars, slugVars>>

\* add_utm(tracked_url, params): the builder applied to its own output
ReapplyAddUtm ==
    /\ utm_pc = "once"
    /\ utm_once # VALUE_ERROR
    /\ utm_twice' = add_utm(utm_once, utm_params)
    /\ utm_pc' = "twice"
    /\ UNCHANGED <<utm_url, utm_params, utm_once>>
    /\ UNCHANGED <<redirVars, logoVars, geoVars, slugVars>>

UtmNext == ApplyAddUtm \/ ReapplyAddUtm

SpecUtm == UtmInit /\ [][UtmNext]_vars

-----------------------------------------------------------------------------
(* The geometry of the logo overlay: embed_logo_in_svg and add_logo_on_pil *)

MaxSym == 6
MaxLogo == 3
MaxPad == 2
\* logo_scale is num / ScaleDen; LOGO_SCALE = 0.4 is 2 / 5
ScaleDen == 5

Max(a, b) == IF a >= b THEN a ELSE b

\* the box with the padding added once, not on both sides
SvgBoxPadOnce(total_w, total_h, lw, lh, num, den, pad) ==
    LET Lw == Max(1, (total_w * num) \div den)
        Lh == Max(1, (Lw * lh) \div lw)
        BgW == Lw + pad
        BgH == Lh + pad
        X == (total_w - BgW) \div 2
        Y == (total_h - BgH) \div 2
    IN [x |-> X, y |-> Y, w |-> BgW, h |-> BgH,
        lx |-> X + pad, ly |-> Y + pad, lw |-> Lw, lh |-> Lh]

\* embed_logo_in_svg, lines 137-146 and 155-156: the rect and the image of the
\* overlay. logo_scale is num / den; int() of the non-negative floats is \div.
SvgBox(total_w, total_h, lw, lh, num, den, pad) ==
    LET Lw == Max(1, (total_w * num) \div den)
        Lh == Max(1, (Lw * lh) \div lw)
        BgW == Lw + 2 * pad
        BgH == Lh + 2 * pad
        X == (total_w - BgW) \div 2
        Y == (total_h - BgH) \div 2
    IN [x |-> X, y |-> Y, w |-> BgW, h |-> BgH,
        lx |-> X + pad, ly |-> Y + pad, lw |-> Lw, lh |-> Lh]

\* add_logo_on_pil, lines 103-125: the white box and the logo pasted on the image
PilBox(W, H, lw, lh, num, den, pad) ==
    LET target_w == Max(1, (W * num) \div den)
        new_w == target_w
        new_h == Max(1, (new_w * lh) \div lw)
        bg_w == new_w + 2 * pad
        bg_h == new_h + 2 * pad
        x0 == (W - bg_w) \div 2
        y0 == (H - bg_h) \div 2
    IN [x |-> x0, y |-> y0, w |-> bg_w, h |-> bg_h,
        lx |-> x0 + pad, ly |-> y0 + pad, lw |-> new_w, lh |-> new_h]

GeoInputs ==
    [W : 1..MaxSym, H : 1..MaxSym, lw : 1..MaxLogo, lh : 1..MaxLogo,
     num : 0..ScaleDen, pad : 0..MaxPad]

GeoInit ==
    /\ geo_in \in GeoInputs
    /\ geo_svg = <<>>
    /\ geo_pil = <<>>
    /\ IdleRedir /\ IdleLogo /\ IdleUtm /\ IdleSlug

\* line 231 of main(): the overlay is embedded in the SVG just saved
EmbedLogoInSvg ==
    /\ geo_svg = <<>>
    /\ geo_svg' = SvgBox(geo_in.W, geo_in.H, geo_in.lw, geo_in.lh, geo_in.num, ScaleDen,
                         geo_in.pad)
    /\ UNCHANGED <<geo_in, geo_pil>>
    /\ UNCHANGED <<redirVars, logoVars, utmVars, slugVars>>

\* line 240 of main(): the logo is pasted on the raster image of the same symbol
AddLogoOnPil ==
    /\ geo_svg # <<>> /\ geo_pil = <<>>
    /\ geo_pil' = PilBox(geo_in.W, geo_in.H, geo_in.lw, geo_in.lh, geo_in.num, ScaleDen,
                         geo_in.pad)
    /\ UNCHANGED <<geo_in, geo_svg>>
    /\ UNCHANGED <<redirVars, logoVars, utmVars, slugVars>>

GeoNext == EmbedLogoInSvg \/ AddLogoOnPil

SpecGeo == GeoInit /\ [][GeoNext]_vars

-----------------------------------------------------------------------------
(* slugify applied to a text, and the allocator applied to its result for   *)
(* several rows that carry that text                                        *)

MaxText == 3
MaxAlloc == 3

\* a lower-case letter, an upper-case letter, a digit, and characters outside
\* [a-z0-9]: hyphen, space, underscore
TextChars == {"a", "B", "7", "-", " ", "_"}

Texts == UNION {[1..n -> TextChars] : n \in 0..MaxText}

SlugInit ==
    /\ slug_text \in Texts
    /\ slug_out = <<>>
    /\ slug_used = {}
    /\ slug_codes = <<>>
    /\ slug_pc = "start"
    /\ IdleRedir /\ IdleLogo /\ IdleUtm /\ IdleGeo

\* line 139: base_code = slugify(display_name)
ApplySlugify ==
    /\ slug_pc = "start"
    /\ slug_out' = slugify(slug_text)
    /\ slug_pc' = "slugged"
    /\ UNCHANGED <<slug_text, slug_used, slug_codes>>
    /\ UNCHANGED <<redirVars, logoVars, utmVars, geoVars>>

\* lines 140-146: one more row with this text gets its code
AllocateCode ==
    /\ slug_pc = "slugged"
    /\ Len(slug_codes) < MaxAlloc
    /\ slug_codes' = Append(slug_codes, AllocCode(slug_out, slug_used))
    /\ slug_used' = slug_used \cup {AllocCode(slug_out, slug_used)}
    /\ UNCHANGED <<slug_text, slug_out, slug_pc>>
    /\ UNCHANGED <<redirVars, logoVars, utmVars, geoVars>>

SlugNext == ApplySlugify \/ AllocateCode

SpecSlug == SlugInit /\ [][SlugNext]_vars

-----------------------------------------------------------------------------
(* Properties of the redirector variant, checked under Spec *)

\* whether the loop reaches the allocator for this row: both fields present
\* and add_utm returns
Allocates(row) ==
    /\ RowUrl[row] # <<>>
    /\ RowName[row] # <<>>
    /\ RowTracked[row] # VALUE_ERROR

AllocatedRows == {i \in 1..idx : Allocates(csv[i])}

\* C1: within one run the codes given to the rows that have a URL and a display
\* name are pairwise distinct: after every row the used-code set holds one code
\* per such row, and the mapping holds one entry per such row (none overwritten),
\* with exactly the used codes as its keys.
C1_CodesPairwiseDistinct ==
    pc \in {"loop", "write", "done", "aborted", "failed", "killed"} =>
        /\ Cardinality(used_codes) = Cardinality(AllocatedRows)
        /\ Len(mappings) = Cardinality(AllocatedRows)
        /\ DictKeys(mappings) = used_codes

\* two rows with the same display name have both been given a code
C1_Witness ==
    \E i \in 1..idx : \E j \in 1..idx :
        /\ i < j
        /\ Allocates(csv[i]) /\ Allocates(csv[j])
        /\ csv[i].name = csv[j].name
        /\ Cardinality(used_codes) >= 2

\* C2: after a run that found a mapping document of a previous run, every code
\* of that document is still a key of the rewritten document (its pair is kept,
\* or the code maps to the item's new destination).
C2_PriorEntriesKept ==
    (run = 2 /\ pc = "done" /\ doc_at_start.complete) =>
        \A i \in 1..Len(doc_at_start.entries) :
            doc_at_start.entries[i][1] \in DictKeys(map_file.entries)

\* the tracked URL occurs exactly once among the values of the document
OnceIn(entries, tracked) == Cardinality({k \in 1..Len(entries) : entries[k][2] = tracked}) = 1

\* C3: across two consecutive runs whose batches differ by an added, removed or
\* moved row, an item that is in both documents (recognised by its tracked URL,
\* which no other item shares) has the same short code in both.
C3_CodesStableAcrossRuns ==
    (run = 2 /\ pc = "done" /\ doc_at_start.complete) =>
        \A i \in 1..Len(doc_at_start.entries) : \A j \in 1..Len(map_file.entries) :
            ( /\ doc_at_start.entries[i][2] = map_file.entries[j][2]
              /\ OnceIn(doc_at_start.entries, doc_at_start.entries[i][2])
              /\ OnceIn(map_file.entries, map_file.entries[j][2]) )
            => doc_at_start.entries[i][1] = map_file.entries[j][1]

\* C4: a second run on the same rows in the same order writes the mapping
\* document the first run wrote (same entries in the same order) and assigns
\* the same set of codes, whatever files the first run left in qr-codes/.
C4_RerunIdempotent ==
    (run = 2 /\ pc = "done" /\ csv = prev_csv) =>
        /\ map_file = doc_at_start
        /\ used_codes = DictKeys(doc_at_start.entries)

\* a second run on the same two or more rows has completed, with QR files of
\* the first run on disk and two or more codes in the document
C4_Witness ==
    /\ run = 2 /\ pc = "done" /\ csv = prev_csv
    /\ Len(csv) >= 2
    /\ DOMAIN out_dir # {}
    /\ Len(map_file.entries) >= 2

\* C5: when the rewrite of an existing mapping document fails or is interrupted,
\* the file holds the complete previous document or the complete new one.
C5_WriteAllOrNothing ==
    (pc \in {"failed", "killed"} /\ doc_at_start.complete) =>
        \/ map_file = doc_at_start
        \/ map_file.complete /\ map_file.entries = mappings

\* C8: no row makes the run end before its summary: a row whose URL add_utm
\* cannot parse is skipped and the loop goes on.
C8_NoRowAbortsRun == pc # "aborted"

\* code is the first of base, base-2, base-3, ... that is not in used
FirstFree(code, base, used) ==
    \/ code = base /\ base \notin used
    \/ \E n \in 2..(Cardinality(used) + 2) :
           /\ code = base \o <<"-">> \o IntToStr[n]
           /\ base \in used
           /\ \A m \in 2..(n - 1) : (base \o <<"-">> \o IntToStr[m]) \in used
           /\ code \notin used

\* C13: every row that reaches the allocator adds to the used-code set
\* exactly one code, the first of slug, slug-2, slug-3, ... that was not in the
\* set, where slug is slugify(display name); that code becomes a key of the
\* mapping and the keys already there stay.
C13_FirstFreeCode ==
    [][ (pc = "loop" /\ idx' = idx + 1 /\ Allocates(CurRow)) =>
            \E code \in used_codes' :
                /\ used_codes' = used_codes \cup {code}
                /\ FirstFree(code, slugify(CurName), used_codes)
                /\ code \in DictKeys(mappings')
                /\ DictKeys(mappings) \subseteq DictKeys(mappings')
      ]_vars

\* three rows named "Jay" were processed: the mapping has the keys jay, jay-2
\* and jay-3
C13_Witness ==
    /\ pc = "loop" /\ idx = 3
    /\ \A i \in 1..3 : csv[i].name = N_JAY
    /\ DictKeys(mappings) = {slugify(N_JAY), slugify(N_JAY) \o <<"-", "2">>,
                               slugify(N_JAY) \o <<"-", "3">>}

\* C14: in a run that no exception ends, after every row and at the summary
\* total = created + skipped and total is the number of rows read: each row is
\* counted once, as created or as skipped. The same holds for the counters of
\* the two-format generators.
C14_CountersBalance ==
    /\ pc \in {"loop", "write", "done"} =>
           (total = created + skipped /\ total = idx)
    /\ lpc \in {"loop", "done"} =>
           (ltotal = lcreated + lskipped /\ ltotal = lidx)

\* a run has printed its summary after a created row, a row without display
\* name and a row whose QR could not be made
C14_Witness ==
    /\ pc = "done" /\ run = 1
    /\ total = 3 /\ created = 1 /\ skipped = 2
    /\ qr_fails = 1
    /\ \E i \in 1..3 : RowName[csv[i]] = <<>>

\* C15: the mapping document a run has written holds as many entries as the
\* run created QR files, and the used-code set holds as many codes: a skipped
\* row left no entry and took no code.
C15_MappingOnlyForCreated ==
    pc = "done" =>
        /\ Len(map_file.entries) = created
        /\ Cardinality(used_codes) = created

\* C16: the file a row's QR is saved to encodes BASE_REDIRECT/r/<code> for a
\* code that the row added to the mapping with the row's own tracked URL as
\* its value; no later row of the run changes or removes an entry; and the
\* document the run writes is that mapping.
C16_PayloadMatchesMapping ==
    [][ /\ (pc = "loop" /\ created' = created + 1) =>
               \E p \in (DOMAIN out_dir') \ (DOMAIN out_dir) :
                   \E code \in DictKeys(mappings') \ DictKeys(mappings) :
                       /\ out_dir'[p] = BASE_REDIRECT \o <<"/","r","/">> \o code
                       /\ DictGet(mappings', code)
                              = add_utm(Strip[CurRow.url, WHITESPACE],
                                        UtmParams(Strip[CurRow.name, WHITESPACE]))
        /\ run' = run =>
               \A k \in DictKeys(mappings) :
                   k \in DictKeys(mappings') /\ DictGet(mappings', k) = DictGet(mappings, k)
        /\ pc' = "done" => (map_file'.complete /\ map_file'.entries = mappings')
      ]_vars

\* a run has written its document after creating the QR files of two rows
\* that share a display name and differ in their destination
C16_Witness ==
    /\ pc = "done" /\ run = 1 /\ created = 2 /\ Len(csv) = 2
    /\ csv[1].name = csv[2].name /\ csv[1].url # csv[2].url
    /\ Cardinality(DOMAIN out_dir) = 2
    /\ Len(map_file.entries) = 2
    /\ map_file.entries[1][2] # map_file.entries[2][2]

-----------------------------------------------------------------------------
(* Properties of add_utm, checked under SpecUtm *)

QueryPairs(url) == parse_qsl(urlsplit(url).query)

\* C6: add_utm applied to its own result returns that result: for every URL
\* urlsplit accepts and every parameter list, add_utm(add_utm(u, p), p) =
\* add_utm(u, p), and the second application adds no query parameter.
C6_AddUtmIdempotent ==
    utm_pc = "twice" =>
        /\ utm_twice = utm_once
        /\ Len(QueryPairs(utm_twice)) = Len(QueryPairs(utm_once))

\* the first application appended parameters and the second has been made
C6_Witness ==
    /\ utm_pc = "twice"
    /\ utm_once # utm_url
    /\ Len(QueryPairs(utm_once)) > Len(QueryPairs(utm_url)) + 1

\* the parameters of params that the claim says are appended: those with a
\* value whose key equals no existing key when both are lowered
C7_Expected(existing_pairs, params) ==
    SelectSeq(params, LAMBDA kv :
        /\ kv[2] # <<>>
        /\ \A i \in 1..Len(existing_pairs) :
               StrLower[existing_pairs[i][1]] # StrLower[kv[1]])

\* C7: the query of add_utm(u, p) is the query of u, every parameter with its
\* key and value and in its place, followed by the parameters of p that have a
\* value and whose key matches no existing key case-insensitively, in p's order.
C7_AddUtmAppendsOnlyMissing ==
    (utm_pc \in {"once", "twice"} /\ utm_once # VALUE_ERROR) =>
        QueryPairs(utm_once) = QueryPairs(utm_url) \o C7_Expected(QueryPairs(utm_url), utm_params)

\* a URL that carries UTM_SOURCE in upper case has been tracked: the key was
\* kept as written, no utm_source was added, and other parameters were
C7_Witness ==
    /\ utm_pc = "once" /\ utm_once # VALUE_ERROR
    /\ \E i \in 1..Len(QueryPairs(utm_url)) : QueryPairs(utm_url)[i][1] = StrUpper[K_SOURCE]
    /\ \A i \in 1..Len(QueryPairs(utm_once)) : QueryPairs(utm_once)[i][1] # K_SOURCE
    /\ Len(QueryPairs(utm_once)) > Len(QueryPairs(utm_url))

-----------------------------------------------------------------------------
(* Properties of the logo variant, checked under SpecLogo *)

\* every file of dir is in dir2 with the same content
KeepsFiles(dir, dir2) == \A p \in DOMAIN dir : p \in DOMAIN dir2 /\ dir2[p] = dir[p]

\* C9: unique_path returns no path that exists, no step of a run changes or
\* removes a file that exists, and every created item adds one file to each
\* directory: items with the same base name end up as distinct files.
C9_NeverOverwrites ==
    [][ /\ (lpc = "loop" /\ lidx < Len(lcsv)) =>
               /\ LOutSvgPath \notin DOMAIN svg_dir
               /\ LOutJpgPath \notin DOMAIN jpg_dir
        /\ KeepsFiles(svg_dir, svg_dir')
        /\ KeepsFiles(jpg_dir, jpg_dir')
        /\ lcreated' = lcreated + 1 =>
               /\ Cardinality(DOMAIN svg_dir') = Cardinality(DOMAIN svg_dir) + 1
               /\ Cardinality(DOMAIN jpg_dir') = Cardinality(DOMAIN jpg_dir) + 1
      ]_vars

\* two rows of the run whose names sanitize to the same base name were both
\* created, beside a file an earlier run left under that base name
C9_Witness ==
    \E i \in 1..lidx : \E j \in 1..lidx :
        /\ i < j
        /\ lcsv[i].file_name # lcsv[j].file_name
        /\ sanitize_filename(Strip[lcsv[i].file_name, WHITESPACE])
               = sanitize_filename(Strip[lcsv[j].file_name, WHITESPACE])
        /\ \E p \in DOMAIN svg_dir : svg_dir[p].row = i
        /\ \E p \in DOMAIN svg_dir : svg_dir[p].row = j
        /\ \E p \in DOMAIN jpg_dir : jpg_dir[p].row = i
        /\ \E p \in DOMAIN jpg_dir : jpg_dir[p].row = j
        /\ \E p \in DOMAIN svg_dir : svg_dir[p] = OLD_FILE
        /\ \E p \in DOMAIN jpg_dir : jpg_dir[p] = OLD_FILE

\* the rows processed so far that have a file in the directory
RowsWithFile(dir) == {i \in 1..lidx : \E p \in DOMAIN dir : dir[p].row = i}

\* the plain symbol of row i of the run
PlainOf(i) == [row |-> i, payload |-> LRowTracked[lcsv[i]], logo |-> FALSE]

\* C11: when no logo path is configured or no file is at it, every file the
\* run writes holds the plain symbol of its row (the overlay steps returned
\* their input unchanged), and every row whose raster file was written also
\* has its vector file and is counted as created.
C11_MissingLogoIsNoOp ==
    (logo_path = NO_LOGO \/ ~logo_exists) =>
        /\ \A p \in DOMAIN svg_dir :
               svg_dir[p].row >= 1 => svg_dir[p] = PlainOf(svg_dir[p].row)
        /\ \A p \in DOMAIN jpg_dir :
               jpg_dir[p].row >= 1 => jpg_dir[p] = PlainOf(jpg_dir[p].row)
        /\ RowsWithFile(jpg_dir) \subseteq RowsWithFile(svg_dir)
        /\ lcreated = Cardinality(RowsWithFile(jpg_dir))

\* a logo path is configured, no file is at it, and two rows were created
C11_Witness ==
    /\ logo_path = LOGO_PATH /\ ~logo_exists
    /\ lcreated >= 2
    /\ Cardinality(RowsWithFile(svg_dir)) >= 2
    /\ Cardinality(RowsWithFile(jpg_dir)) >= 2

\* C17: after every row, the rows that have a vector file are the rows that
\* have a raster file, and they are the rows counted as created: a skipped row
\* has neither file.
C17_OutputsAllOrNothing ==
    lpc \in {"loop", "done"} =>
        /\ RowsWithFile(svg_dir) = RowsWithFile(jpg_dir)
        /\ lcreated = Cardinality(RowsWithFile(svg_dir))

-----------------------------------------------------------------------------
(* Properties of the overlay geometry, checked under SpecGeo *)

Abs(n) == IF n >= 0 THEN n ELSE 0 - n

\* C10: the backing rectangle and the logo box of the vector overlay are within
\* one unit, in every coordinate, of those of the raster overlay of the same
\* symbol, and the rectangle's left and right margins, and its top and bottom
\* margins, differ by at most one unit.
C10_GeometryConsistent ==
    (geo_svg # <<>> /\ geo_pil # <<>>) =>
        /\ \A f \in {"x", "y", "w", "h", "lx", "ly", "lw", "lh"} :
               Abs(geo_svg[f] - geo_pil[f]) <= 1
        /\ Abs(geo_svg.x - (geo_in.W - geo_svg.w - geo_svg.x)) <= 1
        /\ Abs(geo_svg.y - (geo_in.H - geo_svg.h - geo_svg.y)) <= 1
        /\ Abs(geo_pil.x - (geo_in.W - geo_pil.w - geo_pil.x)) <= 1
        /\ Abs(geo_pil.y - (geo_in.H - geo_pil.h - geo_pil.y)) <= 1

\* both overlays computed for a padded logo whose width is not a whole number
\* of units and whose margins are odd
C10_Witness ==
    /\ geo_svg # <<>> /\ geo_pil # <<>>
    /\ geo_in.pad = MaxPad
    /\ (geo_in.W * geo_in.num) % ScaleDen # 0
    /\ (geo_in.W - geo_svg.w) % 2 = 1
    /\ geo_in.lw # geo_in.lh

-----------------------------------------------------------------------------
(* Properties of slugify and of the allocated codes, checked under SpecSlug *)

\* non-empty and made of lower-case letters, digits and hyphens only
IsCode(c) == c # <<>> /\ Range(c) \subseteq (SLUG_CHARS \cup {"-"})

\* no hyphen in front, none at the end, no two in a row
HyphensInside(c) ==
    /\ c # <<>> => (c[1] # "-" /\ c[Len(c)] # "-")
    /\ \A i \in 1..(Len(c) - 1) : ~(c[i] = "-" /\ c[i + 1] = "-")

\* C12: for every text slugify returns a non-empty string of lower-case
\* letters, digits and hyphens with no leading, trailing or doubled hyphen, and
\* "item" when the text has no letter or digit; every code the allocator gives
\* out, suffixed ones included, is non-empty and of the same characters.
C12_SlugAndCodesSafe ==
    slug_pc = "slugged" =>
        /\ IsCode(slug_out)
        /\ HyphensInside(slug_out)
        /\ (\A i \in 1..Len(slug_text) : LowerChar[slug_text[i]] \notin SLUG_CHARS)
               => slug_out = ITEM
        /\ \A k \in 1..Len(slug_codes) : IsCode(slug_codes[k])

\* a text with an upper-case letter and hyphens or spaces around and inside it
\* has been slugified and two rows have got codes, the second one suffixed
C12_Witness ==
    /\ slug_pc = "slugged"
    /\ \E i \in 1..Len(slug_text) : slug_text[i] = "B"
    /\ Len(slug_text) = MaxText
    /\ slug_text[1] \in {"-", " ", "_"}
    /\ Len(slug_codes) >= 2
    /\ slug_codes[2] # slug_out

====
